---- MODULE Spec2Model ----
(***************************************************************************)
(* Settlement core of truth_markets: the claim registry (claim lifecycle   *)
(* and escrow), the market module (positions, staking, payouts) and the    *)
(* attestation module (measurement whitelist, attested resolution).        *)
(* Every entry function is one atomic step; a Move abort rolls the whole   *)
(* transaction back, so an aborted call changes nothing but the record of  *)
(* the last call (the variable last, which is what the caller observes).   *)
(***************************************************************************)
EXTENDS Integers, Sequences, FiniteSets, TLC

\* ---------------------------------------------------------------- bounds
MaxClaims == 2
MaxMarkets == 1
MaxPositions == 2
MaxTime == 1
\* the deeper runs of SpecDeep
MaxMarketsDeep == 2
MaxPositionsDeep == 3

\* the clock of SpecPolicy
MaxClock == 258
\* the bits of an unsigned word: u64 scaled down to what the checker's integers hold
WordBits == 24

\* ------------------------------------------------------ program constants
STATUS_OPEN == 0
STATUS_RESOLVING == 1
STATUS_RESOLVED == 2
STATUS_CANCELLED == 3
BPS_DENOMINATOR == 10000
MEASUREMENT_LEN == 32
INIT_PROTOCOL_FEE_BPS == 100

\* ----------------------------------------------------------------- inputs
\* addresses; Publisher is the sender of the publishing transaction
Users == {"a1", "a2"}
Publisher == "a2"
\* senders of create_claim
Creators == {"a1"}
\* in SpecDeep: the one staker who backs YES (every other staker backs NO)
YesBacker == "a1"
\* deadlines offered to create_claim
Deadlines == {1}
\* the ID handed to create_market (any ID is accepted and it is never read again)
MarketClaimIds == {1}
\* coin values offered to stake (a zero-value coin is a legal Coin<SUI>)
Amounts == {0, 1, 3}
\* creator fee rates offered to create_claim (no upper limit in the code)
CreatorFees == {4900}
Blobs == {"blob"}
\* byte vectors
M1 == [i \in 1..MEASUREMENT_LEN |-> 1]
M2 == [i \in 1..MEASUREMENT_LEN |-> 2]
ShortBytes == [i \in 1..(MEASUREMENT_LEN - 1) |-> 1]
MeasurementInputs == {M1, ShortBytes}
AttestationInputs == {M1 \o <<7>>, M2, ShortBytes}

\* in SpecAuthority: deadlines before, at and after the clock, and the byte
\* vectors offered to whitelist_measurement and revoke_measurement
DeadlinesAuthority == {0, 1, 2}
MeasurementsAuthority == {M1, M2, ShortBytes}

\* in SpecAdmin: the rates offered to update_protocol_fee
ProtocolFees == {0, 100, 250}
\* in SpecFees: creator fee rates below and above 100 %
CreatorFeesWide == {4900, 19900}
\* in SpecOverflow: coin values up to and beyond the largest whose product with
\* 10000 fits the word
AmountsWide == {1, (2^WordBits - 1) \div BPS_DENOMINATOR,
                (2^WordBits - 1) \div BPS_DENOMINATOR + 1}
\* in SpecPolicy: the timestamps whose encodings are offered as key ids
Timestamps == {0, 1, 2, 255, 256, 257}

\* u64: the largest value, and the additions and multiplications that abort
\* the transaction because the result would exceed it
U64_MAX == 2^WordBits - 1
add_aborts(a, b) == a > U64_MAX - b
mul_aborts(a, b) == b > 0 /\ a > U64_MAX \div b

\* Option<T> as a sequence of length 0 or 1
None == <<>>
Some(x) == <<x>>
is_some(o) == Len(o) = 1
borrow(o) == o[1]

VARIABLES
    now,         \* clock::timestamp_ms
    registry,    \* the shared ClaimRegistry object
    claims,      \* the shared Claim objects, in order of creation
    markets,     \* the shared MarketState objects, in order of creation
    positions,   \* the Position objects, in order of creation
    mregistry,   \* the shared MeasurementRegistry object
    withdrawn,   \* per claim: sum of the amounts of successful withdraw_escrow calls
    fees_kept,   \* per claim: sum of the fees computed by successful claim_winnings calls
    last         \* the last entry-function call and its outcome

vars == <<now, registry, claims, markets, positions, mregistry, withdrawn, fees_kept, last>>

ClaimIds == 1..Len(claims)
MarketIds == 1..Len(markets)
PositionIds == 1..Len(positions)

\* what the transaction's sender observes: the entry function called, "ok" or the
\* abort, and the address a coin was transferred to ("nobody": no coin moved)
NoCall == [op |-> "init", err |-> "ok", to |-> "nobody"]

Call(op, err, to) == [op |-> op, err |-> err, to |-> IF err = "ok" THEN to ELSE "nobody"]

\* ------------------------------------------------------- claim_registry
\* fun init
Init ==
    /\ now = 0
    /\ registry = [total_claims |-> 0,
                   protocol_fee_recipient |-> Publisher,
                   default_protocol_fee_bps |-> INIT_PROTOCOL_FEE_BPS]
    /\ claims = <<>>
    /\ markets = <<>>
    /\ positions = <<>>
    /\ mregistry = [measurements |-> <<>>, admin |-> Publisher]
    /\ withdrawn = <<>>
    /\ fees_kept = <<>>
    /\ last = NoCall

\* the clock advances between transactions
Tick ==
    /\ now < MaxTime
    /\ now' = now + 1
    /\ UNCHANGED <<registry, claims, markets, positions, mregistry, withdrawn, fees_kept, last>>

\* create_claim that accepts a deadline equal to the clock
create_claim_err_allow_now(deadline) ==
    IF ~(deadline >= now) THEN "EInvalidDeadline" ELSE "ok"

\* public entry fun create_claim: the check of the deadline
create_claim_err(deadline) ==
    IF ~(deadline > now) THEN "EInvalidDeadline" ELSE "ok"

new_claim(sender, spec_blob_id, evidence_blob_id, description, deadline, creator_fee_bps) ==
    [creator |-> sender,
     spec_blob_id |-> spec_blob_id,
     evidence_blob_id |-> evidence_blob_id,
     description |-> description,
     deadline |-> deadline,
     status |-> STATUS_OPEN,
     result |-> None,
     result_blob_id |-> None,
     resolver_measurement |-> None,
     yes_stake |-> 0,
     no_stake |-> 0,
     creator_fee_bps |-> creator_fee_bps,
     protocol_fee_bps |-> registry.default_protocol_fee_bps,
     escrow |-> 0,
     created_at |-> now,
     resolved_at |-> None]

CreateClaim(sender, blob, deadline, creator_fee_bps) ==
    LET err == create_claim_err(deadline) IN
    /\ Len(claims) < MaxClaims
    /\ last' = Call("create_claim", err, "nobody")
    /\ IF err = "ok"
       THEN /\ claims' = Append(claims, new_claim(sender, blob, blob, blob, deadline, creator_fee_bps))
            /\ withdrawn' = Append(withdrawn, 0)
            /\ fees_kept' = Append(fees_kept, 0)
            /\ registry' = [registry EXCEPT !.total_claims = @ + 1]
       ELSE UNCHANGED <<claims, withdrawn, fees_kept, registry>>
    /\ UNCHANGED <<now, markets, positions, mregistry>>

\* public(package) fun add_stake: the status check
add_stake_err(claim) ==
    IF ~(claim.status = STATUS_OPEN) THEN "EInvalidStatus" ELSE "ok"

\* add_stake that credits the side total but never puts the coin into escrow
add_stake_no_put(claim, stake_amount, is_yes) ==
    IF is_yes
    THEN [claim EXCEPT !.yes_stake = @ + stake_amount]
    ELSE [claim EXCEPT !.no_stake = @ + stake_amount]

\* public(package) fun add_stake: coin::put and the side total
add_stake(claim, stake_amount, is_yes) ==
    IF is_yes
    THEN [claim EXCEPT !.escrow = @ + stake_amount, !.yes_stake = @ + stake_amount]
    ELSE [claim EXCEPT !.escrow = @ + stake_amount, !.no_stake = @ + stake_amount]

\* public(package) fun add_stake: the additions of coin::put and of the side total
add_stake_arith_err(claim, stake_amount, is_yes) ==
    IF add_aborts(claim.escrow, stake_amount) THEN "ARITHMETIC_ERROR"
    ELSE IF is_yes /\ add_aborts(claim.yes_stake, stake_amount) THEN "ARITHMETIC_ERROR"
    ELSE IF ~is_yes /\ add_aborts(claim.no_stake, stake_amount) THEN "ARITHMETIC_ERROR"
    ELSE "ok"

\* resolve_claim without its status check
resolve_claim_err_no_status(claim) ==
    IF ~(now >= claim.deadline) THEN "EDeadlineNotReached" ELSE "ok"

\* resolve_claim with its two checks in the opposite order
resolve_claim_err_status_first(claim) ==
    IF ~(claim.status = STATUS_OPEN \/ claim.status = STATUS_RESOLVING)
    THEN "EClaimAlreadyResolved"
    ELSE IF ~(now >= claim.deadline) THEN "EDeadlineNotReached"
    ELSE "ok"

\* public(package) fun resolve_claim: the two checks, in order
resolve_claim_err(claim) ==
    IF ~(now >= claim.deadline) THEN "EDeadlineNotReached"
    ELSE IF ~(claim.status = STATUS_OPEN \/ claim.status = STATUS_RESOLVING)
         THEN "EClaimAlreadyResolved"
    ELSE "ok"

\* resolve_claim that leaves the claim in STATUS_RESOLVING
resolve_claim_resolving(claim, result, result_blob_id, resolver_measurement) ==
    [claim EXCEPT !.status = STATUS_RESOLVING,
                  !.result = Some(result),
                  !.result_blob_id = Some(result_blob_id),
                  !.resolver_measurement = Some(resolver_measurement),
                  !.resolved_at = Some(now)]

\* resolve_claim that records no resolution time
resolve_claim_no_resolved_at(claim, result, result_blob_id, resolver_measurement) ==
    [claim EXCEPT !.status = STATUS_RESOLVED,
                  !.result = Some(result),
                  !.result_blob_id = Some(result_blob_id),
                  !.resolver_measurement = Some(resolver_measurement)]

\* public(package) fun resolve_claim: the assignments
resolve_claim(claim, result, result_blob_id, resolver_measurement) ==
    [claim EXCEPT !.status = STATUS_RESOLVED,
                  !.result = Some(result),
                  !.result_blob_id = Some(result_blob_id),
                  !.resolver_measurement = Some(resolver_measurement),
                  !.resolved_at = Some(now)]

\* cancel_claim without the check of the stake totals
cancel_claim_err_no_stake_check(claim, sender) ==
    IF ~(claim.creator = sender) THEN "EUnauthorized"
    ELSE IF ~(claim.status = STATUS_OPEN) THEN "EInvalidStatus"
    ELSE "ok"

\* public entry fun cancel_claim: the three checks, in order
cancel_claim_err(claim, sender) ==
    IF ~(claim.creator = sender) THEN "EUnauthorized"
    ELSE IF ~(claim.yes_stake = 0 /\ claim.no_stake = 0) THEN "EInvalidStatus"
    ELSE IF ~(claim.status = STATUS_OPEN) THEN "EInvalidStatus"
    ELSE "ok"

cancel_claim(claim) == [claim EXCEPT !.status = STATUS_CANCELLED]

CancelClaim(sender, c) ==
    LET err == cancel_claim_err(claims[c], sender) IN
    /\ last' = Call("cancel_claim", err, "nobody")
    /\ claims' = IF err = "ok" THEN [claims EXCEPT ![c] = cancel_claim(@)] ELSE claims
    /\ UNCHANGED <<now, registry, markets, positions, mregistry, withdrawn, fees_kept>>

\* withdraw_escrow that takes coins the balance does not hold
withdraw_escrow_err_none(claim, amount) == "ok"

\* public(package) fun withdraw_escrow: coin::take aborts when the balance is short
withdraw_escrow_err(claim, amount) ==
    IF amount > claim.escrow THEN "ENotEnough" ELSE "ok"

withdraw_escrow(claim, amount) == [claim EXCEPT !.escrow = @ - amount]

\* public entry fun update_protocol_fee
update_protocol_fee_err(sender) ==
    IF ~(registry.protocol_fee_recipient = sender) THEN "EUnauthorized" ELSE "ok"

\* update_protocol_fee that also rewrites the rate of the claims created so far
UpdateProtocolFee_retroactive(sender, new_fee_bps) ==
    LET err == update_protocol_fee_err(sender) IN
    /\ last' = Call("update_protocol_fee", err, "nobody")
    /\ registry' = IF err = "ok"
                   THEN [registry EXCEPT !.default_protocol_fee_bps = new_fee_bps]
                   ELSE registry
    /\ claims' = IF err = "ok"
                 THEN [c \in ClaimIds |-> [claims[c] EXCEPT !.protocol_fee_bps = new_fee_bps]]
                 ELSE claims
    /\ UNCHANGED <<now, markets, positions, mregistry, withdrawn, fees_kept>>


UpdateProtocolFee(sender, new_fee_bps) ==
    LET err == update_protocol_fee_err(sender) IN
    /\ last' = Call("update_protocol_fee", err, "nobody")
    /\ registry' = IF err = "ok"
                   THEN [registry EXCEPT !.default_protocol_fee_bps = new_fee_bps]
                   ELSE registry
    /\ UNCHANGED <<now, claims, markets, positions, mregistry, withdrawn, fees_kept>>

\* update_fee_recipient without the check of the sender
update_fee_recipient_err_none(sender) == "ok"

\* public entry fun update_fee_recipient
update_fee_recipient_err(sender) ==
    IF ~(registry.protocol_fee_recipient = sender) THEN "EUnauthorized" ELSE "ok"

UpdateFeeRecipient(sender, new_recipient) ==
    LET err == update_fee_recipient_err(sender) IN
    /\ last' = Call("update_fee_recipient", err, "nobody")
    /\ registry' = IF err = "ok"
                   THEN [registry EXCEPT !.protocol_fee_recipient = new_recipient]
                   ELSE registry
    /\ UNCHANGED <<now, claims, markets, positions, mregistry, withdrawn, fees_kept>>

\* ---------------------------------------------------------------- market
\* public entry fun create_market: any ID is accepted as claim_id
CreateMarket(sender, claim_id, cap) ==
    /\ Len(markets) < cap
    /\ markets' = Append(markets, [claim_id |-> claim_id, positions |-> <<>>,
                                   total_positions |-> 0])
    /\ last' = Call("create_market", "ok", "nobody")
    /\ UNCHANGED <<now, registry, claims, positions, mregistry, withdrawn, fees_kept>>

\* Table<K, V> as a function on the set of its keys
table_contains(t, k) == k \in DOMAIN t
table_add(t, k, v) == [x \in (DOMAIN t) \cup {k} |-> IF x = k THEN v ELSE t[x]]

\* stake whose table::add overwrites the sender's entry instead of aborting
stake_err_no_table_check(claim, market, amount, is_yes, user) ==
    IF ~(amount > 0) THEN "EInvalidAmount"
    ELSE IF ~(claim.status = 0) THEN "EInvalidClaim"
    ELSE IF add_stake_err(claim) # "ok" THEN add_stake_err(claim)
    ELSE "ok"

\* stake that never looks at the claim's status
stake_err_no_status(claim, market, amount, is_yes, user) ==
    IF ~(amount > 0) THEN "EInvalidAmount"
    ELSE IF table_contains(market.positions, user) THEN "EFieldAlreadyExists"
    ELSE "ok"

\* public entry fun stake: the checks up to the first abort
stake_err(claim, market, amount, is_yes, user) ==
    IF ~(amount > 0) THEN "EInvalidAmount"
    ELSE IF ~(claim.status = 0) THEN "EInvalidClaim"
    ELSE IF add_stake_err(claim) # "ok" THEN add_stake_err(claim)
    ELSE IF add_stake_arith_err(claim, amount, is_yes) # "ok"
         THEN add_stake_arith_err(claim, amount, is_yes)
    ELSE IF table_contains(market.positions, user) THEN "EFieldAlreadyExists"
    ELSE "ok"

\* stake that records the amount on both sides of the position
new_position_both_sides(claim_id, user, amount, is_yes) ==
    [claim_id |-> claim_id,
     user |-> user,
     yes_amount |-> amount,
     no_amount |-> amount,
     claimed |-> FALSE]


\* stake that records the amount on the side opposite to the one staked on
new_position_swapped(claim_id, user, amount, is_yes) ==
    [claim_id |-> claim_id,
     user |-> user,
     yes_amount |-> IF is_yes THEN 0 ELSE amount,
     no_amount |-> IF is_yes THEN amount ELSE 0,
     claimed |-> FALSE]

\* stake: the Position object created for the sender
new_position(claim_id, user, amount, is_yes) ==
    [claim_id |-> claim_id,
     user |-> user,
     yes_amount |-> IF is_yes THEN amount ELSE 0,
     no_amount |-> IF is_yes THEN 0 ELSE amount,
     claimed |-> FALSE]

Stake(user, c, m, amount, is_yes, cap) ==
    LET err == stake_err(claims[c], markets[m], amount, is_yes, user) IN
    /\ err = "ok" => Len(positions) < cap
    /\ last' = Call("stake", err, "nobody")
    /\ IF err = "ok"
       THEN /\ claims' = [claims EXCEPT ![c] = add_stake(@, amount, is_yes)]
            /\ positions' = Append(positions, new_position(c, user, amount, is_yes))
            /\ markets' = [markets EXCEPT ![m] =
                  [@ EXCEPT !.positions = table_add(@, user, Len(positions) + 1),
                            !.total_positions = @ + 1]]
       ELSE UNCHANGED <<claims, positions, markets>>
    /\ UNCHANGED <<now, registry, mregistry, withdrawn, fees_kept>>

\* claim_winnings: the side of the position that matches the result
user_stake_of(claim, position) ==
    IF borrow(claim.result) THEN position.yes_amount ELSE position.no_amount

winning_stake_of(claim) == IF borrow(claim.result) THEN claim.yes_stake ELSE claim.no_stake
losing_stake_of(claim) == IF borrow(claim.result) THEN claim.no_stake ELSE claim.yes_stake
total_fee_bps_of(claim) == claim.creator_fee_bps + claim.protocol_fee_bps

\* claim_winnings: the payout arithmetic (u64, truncating division)
user_share_of(claim, position) ==
    (user_stake_of(claim, position) * BPS_DENOMINATOR) \div winning_stake_of(claim)
winnings_from_losers_of(claim, position) ==
    (losing_stake_of(claim) * user_share_of(claim, position)) \div BPS_DENOMINATOR
\* fees rounded up instead of truncated
fees_of_round_up(claim, position) ==
    (winnings_from_losers_of(claim, position) * total_fee_bps_of(claim)
        + (BPS_DENOMINATOR - 1)) \div BPS_DENOMINATOR

fees_of(claim, position) ==
    (winnings_from_losers_of(claim, position) * total_fee_bps_of(claim)) \div BPS_DENOMINATOR
net_winnings_of(claim, position) ==
    winnings_from_losers_of(claim, position) - fees_of(claim, position)
total_payout_of(claim, position) ==
    user_stake_of(claim, position) + net_winnings_of(claim, position)

\* claim_winnings without the check user_stake > 0
claim_winnings_pay_err_no_stake_check(claim, position) ==
    IF winning_stake_of(claim) = 0 THEN "ARITHMETIC_ERROR"
    ELSE IF fees_of(claim, position) > winnings_from_losers_of(claim, position)
         THEN "ARITHMETIC_ERROR"
    ELSE withdraw_escrow_err(claim, total_payout_of(claim, position))

\* the arithmetic aborts (overflow, division by zero, underflow, in the order
\* of the statements) and the escrow check of claim_winnings
claim_winnings_pay_err(claim, position) ==
    IF ~(user_stake_of(claim, position) > 0) THEN "ENoWinnings"
    ELSE IF add_aborts(claim.yes_stake, claim.no_stake) THEN "ARITHMETIC_ERROR"
    ELSE IF add_aborts(claim.creator_fee_bps, claim.protocol_fee_bps)
         THEN "ARITHMETIC_ERROR"
    ELSE IF mul_aborts(user_stake_of(claim, position), BPS_DENOMINATOR)
         THEN "ARITHMETIC_ERROR"
    ELSE IF winning_stake_of(claim) = 0 THEN "ARITHMETIC_ERROR"
    ELSE IF mul_aborts(losing_stake_of(claim), user_share_of(claim, position))
         THEN "ARITHMETIC_ERROR"
    ELSE IF mul_aborts(winnings_from_losers_of(claim, position), total_fee_bps_of(claim))
         THEN "ARITHMETIC_ERROR"
    ELSE IF fees_of(claim, position) > winnings_from_losers_of(claim, position)
         THEN "ARITHMETIC_ERROR"
    ELSE IF add_aborts(user_stake_of(claim, position), net_winnings_of(claim, position))
         THEN "ARITHMETIC_ERROR"
    ELSE withdraw_escrow_err(claim, total_payout_of(claim, position))

\* claim_winnings without the check of the claimed flag
claim_winnings_err_no_claimed(claim, position, sender) ==
    IF ~(claim.status = STATUS_RESOLVED) THEN "EClaimNotResolved"
    ELSE IF ~(position.user = sender) THEN "EInvalidClaim"
    ELSE claim_winnings_pay_err(claim, position)

\* claim_winnings without the check of the sender
claim_winnings_err_no_owner(claim, position, sender) ==
    IF ~(claim.status = STATUS_RESOLVED) THEN "EClaimNotResolved"
    ELSE IF position.claimed THEN "EAlreadyClaimed"
    ELSE claim_winnings_pay_err(claim, position)

\* public entry fun claim_winnings: the checks and aborts, in order
claim_winnings_err(claim, position, sender) ==
    IF ~(claim.status = STATUS_RESOLVED) THEN "EClaimNotResolved"
    ELSE IF position.claimed THEN "EAlreadyClaimed"
    ELSE IF ~(position.user = sender) THEN "EInvalidClaim"
    ELSE IF ~is_some(claim.result) THEN "EClaimNotResolved"
    ELSE claim_winnings_pay_err(claim, position)

\* claim_winnings: who receives the payout coin
payout_recipient(position, sender) == position.user

ClaimWinnings(sender, c, p) ==
    LET err == claim_winnings_err(claims[c], positions[p], sender)
        payout == IF err = "ok" THEN total_payout_of(claims[c], positions[p]) ELSE 0
    IN
    /\ last' = Call("claim_winnings", err, payout_recipient(positions[p], sender))
    /\ IF err = "ok"
       THEN /\ claims' = [claims EXCEPT ![c] = withdraw_escrow(@, payout)]
            /\ positions' = [positions EXCEPT ![p].claimed = TRUE]
            /\ withdrawn' = [withdrawn EXCEPT ![c] = @ + payout]
            /\ fees_kept' = [fees_kept EXCEPT ![c] = @ + fees_of(claims[c], positions[p])]
       ELSE UNCHANGED <<claims, positions, withdrawn, fees_kept>>
    /\ UNCHANGED <<now, registry, markets, mregistry>>

refund_amount_of(position) == position.yes_amount + position.no_amount

\* claim_refund without the check of the claim's status
claim_refund_err_any_status(claim, position, sender) ==
    IF position.claimed THEN "EAlreadyClaimed"
    ELSE IF ~(position.user = sender) THEN "EInvalidClaim"
    ELSE IF ~(refund_amount_of(position) > 0) THEN "ENoWinnings"
    ELSE withdraw_escrow_err(claim, refund_amount_of(position))


\* public entry fun claim_refund: the checks and aborts, in order
claim_refund_err(claim, position, sender) ==
    IF ~(claim.status = 3) THEN "EInvalidClaim"
    ELSE IF position.claimed THEN "EAlreadyClaimed"
    ELSE IF ~(position.user = sender) THEN "EInvalidClaim"
    ELSE IF ~(refund_amount_of(position) > 0) THEN "ENoWinnings"
    ELSE withdraw_escrow_err(claim, refund_amount_of(position))

ClaimRefund(sender, c, p) ==
    LET err == claim_refund_err(claims[c], positions[p], sender)
        refund == IF err = "ok" THEN refund_amount_of(positions[p]) ELSE 0
    IN
    /\ last' = Call("claim_refund", err, payout_recipient(positions[p], sender))
    /\ IF err = "ok"
       THEN /\ claims' = [claims EXCEPT ![c] = withdraw_escrow(@, refund)]
            /\ positions' = [positions EXCEPT ![p].claimed = TRUE]
            /\ withdrawn' = [withdrawn EXCEPT ![c] = @ + refund]
       ELSE UNCHANGED <<claims, positions, withdrawn>>
    /\ UNCHANGED <<now, registry, markets, mregistry, fees_kept>>

\* ----------------------------------------------------------- attestation
\* whitelist_measurement without the check of the sender
whitelist_measurement_err_no_admin(sender, measurement) ==
    IF ~(Len(measurement) = MEASUREMENT_LEN) THEN "EInvalidMeasurement"
    ELSE IF table_contains(mregistry.measurements, measurement) THEN "EFieldAlreadyExists"
    ELSE "ok"

\* public entry fun whitelist_measurement: the checks and aborts, in order
whitelist_measurement_err(sender, measurement) ==
    IF ~(mregistry.admin = sender) THEN "EUnauthorized"
    ELSE IF ~(Len(measurement) = MEASUREMENT_LEN) THEN "EInvalidMeasurement"
    ELSE IF table_contains(mregistry.measurements, measurement) THEN "EFieldAlreadyExists"
    ELSE "ok"

WhitelistMeasurement(sender, measurement, description) ==
    LET err == whitelist_measurement_err(sender, measurement) IN
    /\ last' = Call("whitelist_measurement", err, "nobody")
    /\ mregistry' = IF err = "ok"
                    THEN [mregistry EXCEPT !.measurements =
                            table_add(@, measurement, [description |-> description,
                                                      added_at |-> now,
                                                      active |-> TRUE])]
                    ELSE mregistry
    /\ UNCHANGED <<now, registry, claims, markets, positions, withdrawn, fees_kept>>

\* public entry fun revoke_measurement: table::borrow_mut aborts on a missing key
revoke_measurement_err(sender, measurement) ==
    IF ~(mregistry.admin = sender) THEN "EUnauthorized"
    ELSE IF ~table_contains(mregistry.measurements, measurement) THEN "EFieldDoesNotExist"
    ELSE "ok"

RevokeMeasurement(sender, measurement) ==
    LET err == revoke_measurement_err(sender, measurement) IN
    /\ last' = Call("revoke_measurement", err, "nobody")
    /\ mregistry' = IF err = "ok"
                    THEN [mregistry EXCEPT !.measurements[measurement].active = FALSE]
                    ELSE mregistry
    /\ UNCHANGED <<now, registry, claims, markets, positions, withdrawn, fees_kept>>

\* submit_attested_resolution that takes the whole attestation as the measurement
measurement_of_whole(attestation) == attestation


\* submit_attested_resolution: the measurement is the first 32 bytes
measurement_of(attestation) == SubSeq(attestation, 1, MEASUREMENT_LEN)

\* public fun is_measurement_whitelisted
is_measurement_whitelisted(measurement) ==
    IF ~table_contains(mregistry.measurements, measurement) THEN FALSE
    ELSE mregistry.measurements[measurement].active

\* submit_attested_resolution that lets an unknown measurement through
submit_attested_resolution_err_unknown_ok(claim, attestation) ==
    IF ~(Len(attestation) >= MEASUREMENT_LEN) THEN "EInvalidAttestation"
    ELSE IF table_contains(mregistry.measurements, measurement_of(attestation))
            /\ ~mregistry.measurements[measurement_of(attestation)].active
         THEN "EMeasurementNotWhitelisted"
    ELSE resolve_claim_err(claim)

\* submit_attested_resolution that never looks at the active flag
submit_attested_resolution_err_no_active(claim, attestation) ==
    IF ~(Len(attestation) >= MEASUREMENT_LEN) THEN "EInvalidAttestation"
    ELSE IF ~table_contains(mregistry.measurements, measurement_of(attestation))
         THEN "EMeasurementNotWhitelisted"
    ELSE resolve_claim_err(claim)

\* public entry fun submit_attested_resolution: the checks and aborts, in order
submit_attested_resolution_err(claim, attestation) ==
    IF ~(Len(attestation) >= MEASUREMENT_LEN) THEN "EInvalidAttestation"
    ELSE IF ~table_contains(mregistry.measurements, measurement_of(attestation))
         THEN "EMeasurementNotWhitelisted"
    ELSE IF ~mregistry.measurements[measurement_of(attestation)].active
         THEN "EMeasurementNotWhitelisted"
    ELSE resolve_claim_err(claim)

SubmitAttestedResolution(sender, c, result, result_blob_id, attestation) ==
    LET err == submit_attested_resolution_err(claims[c], attestation) IN
    /\ last' = Call("submit_attested_resolution", err, "nobody")
    /\ claims' = IF err = "ok"
                 THEN [claims EXCEPT ![c] = resolve_claim(@, result, result_blob_id,
                                                         measurement_of(attestation))]
                 ELSE claims
    /\ UNCHANGED <<now, registry, markets, positions, mregistry, withdrawn, fees_kept>>

\* public entry fun update_admin
update_admin_err(sender) ==
    IF ~(mregistry.admin = sender) THEN "EUnauthorized" ELSE "ok"

UpdateAdmin(sender, new_admin) ==
    LET err == update_admin_err(sender) IN
    /\ last' = Call("update_admin", err, "nobody")
    /\ mregistry' = IF err = "ok" THEN [mregistry EXCEPT !.admin = new_admin] ELSE mregistry
    /\ UNCHANGED <<now, registry, claims, markets, positions, withdrawn, fees_kept>>

\* ------------------------------------------------------- time_lock_policy
\* bcs::peel_u64: the first eight bytes, little-endian
le_value(bytes) == LET RECURSIVE le(_)
                       le(b) == IF b = <<>> THEN 0 ELSE Head(b) + 256 * le(Tail(b))
                   IN le(bytes)
peel_u64(id) == le_value(SubSeq(id, 1, 8))
\* bcs::into_remainder_bytes after peel_u64
into_remainder_bytes(id) == SubSeq(id, 9, Len(id))

\* bcs::to_bytes of a u64: eight bytes, little-endian
to_bytes(t) == LET RECURSIVE enc(_, _)
                   enc(v, n) == IF n = 0 THEN <<>> ELSE <<v % 256>> \o enc(v \div 256, n - 1)
               IN enc(t, 8)

\* check_policy that ignores trailing bytes
check_policy_ignore_leftovers(id, timestamp_ms) == timestamp_ms >= peel_u64(id)

\* fun check_policy, for an id peel_u64 can read
check_policy(id, timestamp_ms) ==
    (Len(into_remainder_bytes(id)) = 0) /\ (timestamp_ms >= peel_u64(id))

\* entry fun seal_approve: peel_u64 aborts on fewer than eight bytes
seal_approve_err(id, timestamp_ms) ==
    IF Len(id) < 8 THEN "EOutOfRange"
    ELSE IF ~check_policy(id, timestamp_ms) THEN "ENoAccess"
    ELSE "ok"

SealApprove(id) ==
    /\ last' = Call("seal_approve", seal_approve_err(id, now), "nobody")
    /\ UNCHANGED <<now, registry, claims, markets, positions, mregistry, withdrawn, fees_kept>>

\* the clock of the key servers' dry run
TickClock ==
    /\ now < MaxClock
    /\ now' = now + 1
    /\ UNCHANGED <<registry, claims, markets, positions, mregistry, withdrawn, fees_kept, last>>

\* key ids: encodings of timestamps, cut short, and followed by one more byte
KeyIds ==
    {to_bytes(t) : t \in Timestamps}
        \cup {SubSeq(to_bytes(t), 1, 7) : t \in Timestamps}
        \cup {to_bytes(t) \o <<b>> : t \in Timestamps, b \in {0, 1}}
        \cup {<<>>}

Next ==
    \/ Tick
    \/ \E s \in Creators, b \in Blobs, d \in Deadlines, f \in CreatorFees :
          CreateClaim(s, b, d, f)
    \/ \E s \in Users, c \in ClaimIds : CancelClaim(s, c)
    \/ \E c \in MarketClaimIds : CreateMarket(Publisher, c, MaxMarkets)
    \/ \E u \in Users, c \in ClaimIds, m \in MarketIds, a \in Amounts, y \in BOOLEAN :
          Stake(u, c, m, a, y, MaxPositions)
    \/ \E s \in Users, c \in ClaimIds, p \in PositionIds : ClaimWinnings(s, c, p)
    \/ \E s \in Users, c \in ClaimIds, p \in PositionIds : ClaimRefund(s, c, p)
    \/ \E b \in Blobs : WhitelistMeasurement(Publisher, M1, b)
    \/ \E c \in ClaimIds, r \in BOOLEAN, b \in Blobs, at \in AttestationInputs :
          SubmitAttestedResolution(Publisher, c, r, b, at)

\* The same entry functions, called only when the preconditions the
\* specification documents for them hold (a positive amount on an Open claim, a
\* resolution after the deadline of an Open claim, claim_winnings by the owner of
\* an unclaimed position with a winning stake on a Resolved claim), which leaves
\* room for one more market and one more position.
Claimable(s, c, p) ==
    /\ claims[c].status = STATUS_RESOLVED
    /\ ~positions[p].claimed
    /\ s = positions[p].user
    /\ user_stake_of(claims[c], positions[p]) > 0

NextDeep ==
    \/ Tick
    \/ \E s \in Creators, b \in Blobs, d \in Deadlines, f \in CreatorFees :
          CreateClaim(s, b, d, f)
    \/ \E c \in MarketClaimIds : CreateMarket(Publisher, c, MaxMarketsDeep)
    \/ \E u \in Users, c \in ClaimIds, m \in MarketIds, a \in Amounts \ {0} :
          /\ claims[c].status = STATUS_OPEN
          /\ Stake(u, c, m, a, u = YesBacker, MaxPositionsDeep)
    \/ \E c \in ClaimIds, p \in PositionIds :
          /\ Claimable(positions[p].user, c, p)
          /\ ClaimWinnings(positions[p].user, c, p)
    \/ \E b \in Blobs : WhitelistMeasurement(Publisher, M1, b)
    \/ \E c \in ClaimIds, r \in BOOLEAN, b \in Blobs :
          /\ claims[c].status = STATUS_OPEN
          /\ now >= claims[c].deadline
          /\ SubmitAttestedResolution(Publisher, c, r, b, M1 \o <<7>>)

\* The claim ledger and the measurement registry without the markets: every
\* sender, every deadline around the clock, measurements of both lengths,
\* revocation and the hand-over of the registry's admin.
NextAuthority ==
    \/ Tick
    \/ \E s \in Creators, b \in Blobs, d \in DeadlinesAuthority, f \in CreatorFees :
          CreateClaim(s, b, d, f)
    \/ \E s \in Users, c \in ClaimIds : CancelClaim(s, c)
    \/ \E s \in Users, m \in MeasurementsAuthority, b \in Blobs :
          WhitelistMeasurement(s, m, b)
    \/ \E s \in Users, m \in MeasurementsAuthority : RevokeMeasurement(s, m)
    \/ \E s \in Users, a \in Users : UpdateAdmin(s, a)
    \/ \E s \in Users, c \in ClaimIds, r \in BOOLEAN, b \in Blobs, at \in AttestationInputs :
          SubmitAttestedResolution(s, c, r, b, at)

\* The setters of the two registries, with claims created in between.
NextAdmin ==
    \/ Tick
    \/ \E s \in Creators, b \in Blobs, d \in Deadlines, f \in CreatorFees :
          CreateClaim(s, b, d, f)
    \/ \E s \in Users, f \in ProtocolFees : UpdateProtocolFee(s, f)
    \/ \E s \in Users, r \in Users : UpdateFeeRecipient(s, r)
    \/ \E s \in Users, a \in Users : UpdateAdmin(s, a)

\* The payouts under the fee rates create_claim and update_protocol_fee accept:
\* claims with any creator fee, the default protocol fee changed in between by
\* its recipient, and the calls of NextDeep's stakers (a positive amount on an
\* Open claim, YesBacker on YES and everyone else on NO), a resolution after
\* the deadline and claim_winnings by the owner of an unclaimed position.
NextFees ==
    \/ Tick
    \/ \E s \in Creators, b \in Blobs, d \in Deadlines, f \in CreatorFeesWide :
          CreateClaim(s, b, d, f)
    \/ \E f \in ProtocolFees : UpdateProtocolFee(registry.protocol_fee_recipient, f)
    \/ \E c \in MarketClaimIds : CreateMarket(Publisher, c, MaxMarkets)
    \/ \E u \in Users, c \in ClaimIds, m \in MarketIds, a \in Amounts \ {0} :
          /\ claims[c].status = STATUS_OPEN
          /\ Stake(u, c, m, a, u = YesBacker, MaxPositions)
    \/ \E c \in ClaimIds, p \in PositionIds :
          /\ claims[c].status = STATUS_RESOLVED
          /\ ~positions[p].claimed
          /\ ClaimWinnings(positions[p].user, c, p)
    \/ \E b \in Blobs : WhitelistMeasurement(Publisher, M1, b)
    \/ \E c \in ClaimIds, r \in BOOLEAN, b \in Blobs :
          /\ claims[c].status = STATUS_OPEN
          /\ now >= claims[c].deadline
          /\ SubmitAttestedResolution(Publisher, c, r, b, M1 \o <<7>>)

\* The payouts under coin values near the limit of the multiplication by
\* 10000: a positive amount staked on an Open claim, a resolution after the
\* deadline and claim_winnings by the owner of an unclaimed position.
NextOverflow ==
    \/ Tick
    \/ \E s \in Creators, b \in Blobs, d \in Deadlines, f \in CreatorFees :
          CreateClaim(s, b, d, f)
    \/ \E c \in MarketClaimIds : CreateMarket(Publisher, c, MaxMarkets)
    \/ \E u \in Users, c \in ClaimIds, m \in MarketIds, a \in AmountsWide, y \in BOOLEAN :
          /\ claims[c].status = STATUS_OPEN
          /\ Stake(u, c, m, a, y, MaxPositions)
    \/ \E c \in ClaimIds, p \in PositionIds :
          /\ claims[c].status = STATUS_RESOLVED
          /\ ~positions[p].claimed
          /\ ClaimWinnings(positions[p].user, c, p)
    \/ \E b \in Blobs : WhitelistMeasurement(Publisher, M1, b)
    \/ \E c \in ClaimIds, r \in BOOLEAN, b \in Blobs :
          /\ claims[c].status = STATUS_OPEN
          /\ now >= claims[c].deadline
          /\ SubmitAttestedResolution(Publisher, c, r, b, M1 \o <<7>>)

\* The key servers' calls of seal_approve while the clock runs.
NextPolicy ==
    \/ TickClock
    \/ \E id \in KeyIds : SealApprove(id)

\* ======================================================================
\* Properties
\* ======================================================================

\* C1: for every claim, in every reachable state, the escrow balance equals
\* yes_stake + no_stake minus the sum of the amounts of all successful
\* withdraw_escrow calls on that claim.
C1_EscrowAccounting ==
    \A c \in ClaimIds :
        claims[c].escrow = claims[c].yes_stake + claims[c].no_stake - withdrawn[c]

\* C1 witness: a claim with stake on both sides from which a payout has been withdrawn
C1_Witness ==
    \E c \in ClaimIds :
        /\ claims[c].yes_stake > 0 /\ claims[c].no_stake > 0
        /\ withdrawn[c] > 0
        /\ last.op = "claim_winnings" /\ last.err = "ok"

\* a submit_attested_resolution call that gets as far as resolve_claim
ReachesResolve(at) ==
    /\ Len(at) >= MEASUREMENT_LEN
    /\ is_measurement_whitelisted(measurement_of(at))

Terminal(claim) == claim.status \in {STATUS_RESOLVED, STATUS_CANCELLED}

\* the only status changes are Open -> Resolved by a resolution and
\* Open -> Cancelled by cancel_claim
StatusStep ==
    \A c \in ClaimIds :
        claims'[c].status # claims[c].status =>
            /\ claims[c].status = STATUS_OPEN
            /\ \/ claims'[c].status = STATUS_RESOLVED
                   /\ last'.op = "submit_attested_resolution"
               \/ claims'[c].status = STATUS_CANCELLED /\ last'.op = "cancel_claim"

\* C2 as stated: status is monotonic (Open -> Resolved by resolve, Open ->
\* Cancelled by cancel, both terminal), resolve on a Resolved or Cancelled claim
\* fails with AlreadyResolved and cancel on one fails with InvalidStatus.
C2_Original ==
    [][/\ StatusStep
       /\ last'.op = "submit_attested_resolution" =>
             \A c \in ClaimIds, r \in BOOLEAN, b \in Blobs, at \in AttestationInputs :
                (Terminal(claims[c]) /\ ReachesResolve(at)
                    /\ SubmitAttestedResolution(Publisher, c, r, b, at))
                => last'.err = "EClaimAlreadyResolved"
       /\ last'.op = "cancel_claim" =>
             \A s \in Users, c \in ClaimIds :
                (Terminal(claims[c]) /\ CancelClaim(s, c)) => last'.err = "EInvalidStatus"
      ]_vars

\* C2 amended: status is monotonic (Open -> Resolved by resolve, Open ->
\* Cancelled by cancel, both terminal); resolve on a Resolved or Cancelled claim
\* fails, with AlreadyResolved once now >= deadline and with DeadlineNotReached
\* before it; cancel on one fails, with InvalidStatus for the creator and with
\* Unauthorized for any other caller; neither changes the claim.
C2_StatusMonotonic ==
    [][/\ StatusStep
       /\ last'.op = "submit_attested_resolution" =>
             \A c \in ClaimIds, r \in BOOLEAN, b \in Blobs, at \in AttestationInputs :
                (Terminal(claims[c]) /\ ReachesResolve(at)
                    /\ SubmitAttestedResolution(Publisher, c, r, b, at))
                => /\ last'.err = IF now >= claims[c].deadline
                                  THEN "EClaimAlreadyResolved" ELSE "EDeadlineNotReached"
                   /\ claims' = claims
       /\ last'.op = "cancel_claim" =>
             \A s \in Users, c \in ClaimIds :
                (Terminal(claims[c]) /\ CancelClaim(s, c))
                => /\ last'.err = IF s = claims[c].creator
                                  THEN "EInvalidStatus" ELSE "EUnauthorized"
                   /\ claims' = claims
      ]_vars

\* C2 witness: a resolution was refused on a claim that is already Resolved
C2_Witness ==
    /\ last.op = "submit_attested_resolution"
    /\ last.err = "EClaimAlreadyResolved"
    /\ \E c \in ClaimIds : claims[c].status = STATUS_RESOLVED

\* C3 as stated: whenever the claim is Resolved, the position is unclaimed, the
\* caller is the position's owner and the position's stake on the winning side is
\* non-zero, claim_winnings succeeds (no InsufficientEscrow, no division by zero,
\* no arithmetic abort), whatever other positions have claimed before.
C3_Original ==
    [][last'.op = "claim_winnings" =>
          \A s \in Users, c \in ClaimIds, p \in PositionIds :
             (Claimable(s, c, p) /\ ClaimWinnings(s, c, p)) => last'.err = "ok"
      ]_vars

\* the payout of C4, written from the formula of the specification
PayoutFormula(yes_stake, no_stake, result, yes_amount, no_amount, fee_bps) ==
    LET user_stake == IF result THEN yes_amount ELSE no_amount
        winning_total == IF result THEN yes_stake ELSE no_stake
        losing_total == IF result THEN no_stake ELSE yes_stake
        W == (losing_total * ((user_stake * 10000) \div winning_total)) \div 10000
    IN user_stake + (W - ((W * fee_bps) \div 10000))

ExpectedPayout(claim, position) ==
    PayoutFormula(claim.yes_stake, claim.no_stake, borrow(claim.result),
                  position.yes_amount, position.no_amount,
                  claim.creator_fee_bps + claim.protocol_fee_bps)

\* the worked example: yes_stake 600, no_stake 400, result YES, user_stake 100,
\* fee_bps 200
ExampleClaim ==
    [yes_stake |-> 600, no_stake |-> 400, result |-> Some(TRUE),
     creator_fee_bps |-> 100, protocol_fee_bps |-> 100]
ExamplePosition == [yes_amount |-> 100, no_amount |-> 0]

\* C4: a successful claim_winnings pays exactly
\* user_stake + (W - floor(W * fee_bps / 10000)) with
\* W = floor(losing_total * floor(user_stake * 10000 / winning_total) / 10000),
\* and the worked example gives 165.
C4_PayoutFormula ==
    [][/\ total_payout_of(ExampleClaim, ExamplePosition) = 165
       /\ (last'.op = "claim_winnings" /\ last'.err = "ok") =>
             \A s \in Users, c \in ClaimIds, p \in PositionIds :
                ClaimWinnings(s, c, p) =>
                   /\ withdrawn'[c] - withdrawn[c] = ExpectedPayout(claims[c], positions[p])
                   /\ claims[c].escrow - claims'[c].escrow
                         = ExpectedPayout(claims[c], positions[p])
      ]_vars

\* C4 witness: a payout has been made from which a non-zero fee was deducted
C4_Witness ==
    /\ last.op = "claim_winnings" /\ last.err = "ok"
    /\ \E c \in ClaimIds : fees_kept[c] > 0 /\ withdrawn[c] > 0

\* C5 as stated: for every resolved claim the sum of the payouts withdrawn is
\* <= yes_stake + no_stake, and equals it only if the fees are zero.
C5_Original ==
    \A c \in ClaimIds :
        claims[c].status = STATUS_RESOLVED =>
            /\ withdrawn[c] <= claims[c].yes_stake + claims[c].no_stake
            /\ withdrawn[c] = claims[c].yes_stake + claims[c].no_stake => fees_kept[c] = 0

\* the claimed flag is never reset, and a withdrawal through a position finds the
\* flag false and leaves it true
ClaimedStep ==
    /\ \A p \in PositionIds : positions[p].claimed => positions'[p].claimed
    /\ (last'.op = "claim_winnings" /\ last'.err = "ok") =>
          \A s \in Users, c \in ClaimIds, p \in PositionIds :
             ClaimWinnings(s, c, p) => ~positions[p].claimed /\ positions'[p].claimed
    /\ (last'.op = "claim_refund" /\ last'.err = "ok") =>
          \A s \in Users, c \in ClaimIds, p \in PositionIds :
             ClaimRefund(s, c, p) => ~positions[p].claimed /\ positions'[p].claimed

\* C6 as stated: claimed changes only from false to true, and every
\* claim_winnings call on a position whose claimed flag is already true fails
\* with AlreadyClaimed and moves no funds.
C6_Original ==
    [][/\ ClaimedStep
       /\ last'.op = "claim_winnings" =>
             \A s \in Users, c \in ClaimIds, p \in PositionIds :
                (positions[p].claimed /\ ClaimWinnings(s, c, p))
                => /\ last'.err = "EAlreadyClaimed"
                   /\ claims' = claims /\ withdrawn' = withdrawn
      ]_vars

\* C6 amended: claimed changes only from false to true; every claim_winnings
\* call on a position whose claimed flag is already true fails, with
\* AlreadyClaimed when the claim passed to it is Resolved and with NotResolved
\* when it is not, and moves no funds, so each position withdraws at most once.
C6_ClaimedOnce ==
    [][/\ ClaimedStep
       /\ last'.op = "claim_winnings" =>
             \A s \in Users, c \in ClaimIds, p \in PositionIds :
                (positions[p].claimed /\ ClaimWinnings(s, c, p))
                => /\ last'.err = IF claims[c].status = STATUS_RESOLVED
                                  THEN "EAlreadyClaimed" ELSE "EClaimNotResolved"
                   /\ claims' = claims /\ withdrawn' = withdrawn
      ]_vars

\* C6 witness: a second claim_winnings on a claimed position was refused
C6_Witness ==
    /\ last.op = "claim_winnings" /\ last.err = "EAlreadyClaimed"
    /\ \E p \in PositionIds : positions[p].claimed

\* every coin paid out by a withdrawal through p goes to p's owner
PaidToOwner ==
    /\ (last'.op = "claim_winnings" /\ last'.err = "ok") =>
          \A s \in Users, c \in ClaimIds, p \in PositionIds :
             ClaimWinnings(s, c, p) => last'.to = positions[p].user /\ s = positions[p].user
    /\ (last'.op = "claim_refund" /\ last'.err = "ok") =>
          \A s \in Users, c \in ClaimIds, p \in PositionIds :
             ClaimRefund(s, c, p) => last'.to = positions[p].user /\ s = positions[p].user

\* C7 as stated: claim_winnings or claim_refund by a caller other than the
\* position's owner fails with Unauthorized (the abort of the sender check,
\* market::EInvalidClaim) and leaves escrow and claimed unchanged; every payout
\* or refund goes to the position's owner.
C7_Original ==
    [][/\ PaidToOwner
       /\ last'.op = "claim_winnings" =>
             \A s \in Users, c \in ClaimIds, p \in PositionIds :
                (s # positions[p].user /\ ClaimWinnings(s, c, p))
                => /\ last'.err = "EInvalidClaim"
                   /\ claims' = claims /\ positions' = positions
       /\ last'.op = "claim_refund" =>
             \A s \in Users, c \in ClaimIds, p \in PositionIds :
                (s # positions[p].user /\ ClaimRefund(s, c, p))
                => /\ last'.err = "EInvalidClaim"
                   /\ claims' = claims /\ positions' = positions
      ]_vars

\* C7 amended: claim_winnings or claim_refund by a caller other than the
\* position's owner fails and leaves the claim's escrow and the position's
\* claimed flag unchanged: with Unauthorized when the claim has the status the
\* call needs (Resolved, Cancelled) and the position is unclaimed, and otherwise
\* with the error of the earlier check (NotResolved or InvalidStatus, then
\* AlreadyClaimed); every payout or refund goes to the position's owner.
C7_OwnerOnly ==
    [][/\ PaidToOwner
       /\ last'.op = "claim_winnings" =>
             \A s \in Users, c \in ClaimIds, p \in PositionIds :
                (s # positions[p].user /\ ClaimWinnings(s, c, p))
                => /\ last'.err = IF claims[c].status # STATUS_RESOLVED
                                  THEN "EClaimNotResolved"
                                  ELSE IF positions[p].claimed THEN "EAlreadyClaimed"
                                  ELSE "EInvalidClaim"
                   /\ claims' = claims /\ positions' = positions
       /\ last'.op = "claim_refund" =>
             \A s \in Users, c \in ClaimIds, p \in PositionIds :
                (s # positions[p].user /\ ClaimRefund(s, c, p))
                => /\ last'.err = IF claims[c].status # STATUS_CANCELLED
                                  THEN "EInvalidClaim"
                                  ELSE IF positions[p].claimed THEN "EAlreadyClaimed"
                                  ELSE "EInvalidClaim"
                   /\ claims' = claims /\ positions' = positions
      ]_vars

\* C7 witness: on a Resolved claim with an unclaimed winning position the sender
\* check has refused a caller
C7_Witness ==
    /\ last.op = "claim_winnings" /\ last.err = "EInvalidClaim"
    /\ \E c \in ClaimIds, p \in PositionIds :
          /\ claims[c].status = STATUS_RESOLVED
          /\ ~positions[p].claimed
          /\ user_stake_of(claims[c], positions[p]) > 0

Staked(claim) == claim.yes_stake > 0 \/ claim.no_stake > 0

\* C8: cancel by a caller other than the creator fails with Unauthorized; cancel
\* by the creator with yes_stake > 0 or no_stake > 0 fails with InvalidStatus (a
\* caller who is not the creator is refused before the stakes are looked at); in
\* both cases the claim is unchanged; the side totals never decrease and no
\* claim with a stake is ever Cancelled.
C8_NoCancelWithStake ==
    [][/\ \A c \in ClaimIds : Staked(claims'[c]) => claims'[c].status # STATUS_CANCELLED
       /\ \A c \in ClaimIds : /\ claims'[c].yes_stake >= claims[c].yes_stake
                              /\ claims'[c].no_stake >= claims[c].no_stake
       /\ last'.op = "cancel_claim" =>
             \A s \in Users, c \in ClaimIds :
                CancelClaim(s, c) =>
                   /\ s # claims[c].creator => last'.err = "EUnauthorized"
                   /\ (s = claims[c].creator /\ Staked(claims[c]))
                         => last'.err = "EInvalidStatus"
                   /\ (s # claims[c].creator \/ Staked(claims[c])) => claims' = claims
      ]_vars

\* C8 witness: the creator's cancel of an Open claim with a stake was refused
C8_Witness ==
    /\ last.op = "cancel_claim" /\ last.err = "EInvalidStatus"
    /\ \E c \in ClaimIds : Staked(claims[c]) /\ claims[c].status = STATUS_OPEN

\* C9 as stated: cancel succeeds if and only if yes_stake == 0 and
\* no_stake == 0 and status == Open.
C9_Original ==
    [][last'.op = "cancel_claim" =>
          \A s \in Users, c \in ClaimIds :
             CancelClaim(s, c) =>
                (last'.err = "ok" <=>
                    (claims[c].yes_stake = 0 /\ claims[c].no_stake = 0
                        /\ claims[c].status = STATUS_OPEN))
      ]_vars

\* C9 amended: cancel succeeds if and only if the caller is the creator and
\* yes_stake == 0 and no_stake == 0 and status == Open; it fails otherwise, and
\* a successful cancel sets the status to Cancelled.
C9_CancelIff ==
    [][last'.op = "cancel_claim" =>
          \A s \in Users, c \in ClaimIds :
             CancelClaim(s, c) =>
                /\ last'.err = "ok" <=>
                      (s = claims[c].creator
                          /\ claims[c].yes_stake = 0 /\ claims[c].no_stake = 0
                          /\ claims[c].status = STATUS_OPEN)
                /\ last'.err = "ok" => claims'[c].status = STATUS_CANCELLED
                /\ last'.err # "ok" => claims' = claims
      ]_vars

\* C9 witness: a cancel has succeeded
C9_Witness ==
    /\ last.op = "cancel_claim" /\ last.err = "ok"
    /\ \E c \in ClaimIds : claims[c].status = STATUS_CANCELLED

\* a stake attempt on a claim that is not Open changes nothing
ClosedStakeFrame ==
    /\ claims' = claims /\ positions' = positions /\ markets' = markets

\* C10 as stated: once a claim's status is not Open it stays so, and every stake
\* attempt on it fails with InvalidStatus (the abort of stake's status check,
\* market::EInvalidClaim) and leaves escrow, yes_stake, no_stake and the set of
\* positions unchanged.
C10_Original ==
    [][/\ \A c \in ClaimIds :
             claims[c].status # STATUS_OPEN => claims'[c].status # STATUS_OPEN
       /\ last'.op = "stake" =>
             \A u \in Users, c \in ClaimIds, m \in MarketIds, a \in Amounts, y \in BOOLEAN :
                (claims[c].status # STATUS_OPEN /\ Stake(u, c, m, a, y, MaxPositions))
                => last'.err = "EInvalidClaim" /\ ClosedStakeFrame
      ]_vars

\* C10 amended: once a claim's status is not Open it stays so, and every stake
\* attempt on it fails, with InvalidStatus when the amount is positive and with
\* InvalidAmount when the amount is zero, and leaves escrow, yes_stake, no_stake
\* and the set of positions unchanged.
C10_NoStakeOnceClosed ==
    [][/\ \A c \in ClaimIds :
             claims[c].status # STATUS_OPEN => claims'[c].status # STATUS_OPEN
       /\ last'.op = "stake" =>
             \A u \in Users, c \in ClaimIds, m \in MarketIds, a \in Amounts, y \in BOOLEAN :
                (claims[c].status # STATUS_OPEN /\ Stake(u, c, m, a, y, MaxPositions))
                => /\ last'.err = IF a > 0 THEN "EInvalidClaim" ELSE "EInvalidAmount"
                   /\ ClosedStakeFrame
      ]_vars

\* C10 witness: a stake of a positive amount on a Resolved claim was refused
C10_Witness ==
    /\ last.op = "stake" /\ last.err = "EInvalidClaim"
    /\ \A c \in ClaimIds : claims[c].status = STATUS_RESOLVED
    /\ claims # <<>>

\* resolve_claim: the side totals published in the ClaimResolved event
ClaimResolved(claim) == [yes_stake |-> claim.yes_stake, no_stake |-> claim.no_stake]

\* C11: stake and resolve being atomic steps taken in any order, no stake is
\* accepted after resolution: from the resolve step on yes_stake and no_stake
\* keep the values published in ClaimResolved and the escrow is never credited
\* again, and every credit to the escrow is made on an Open claim and is counted,
\* with the same amount, in the side totals.
C11_NoStakeAfterResolve ==
    [][/\ \A c \in ClaimIds :
             claims[c].status = STATUS_RESOLVED =>
                /\ claims'[c].status = STATUS_RESOLVED
                /\ claims'[c].yes_stake = claims[c].yes_stake
                /\ claims'[c].no_stake = claims[c].no_stake
                /\ claims'[c].escrow <= claims[c].escrow
       /\ \A c \in ClaimIds :
             (claims[c].status # STATUS_RESOLVED /\ claims'[c].status = STATUS_RESOLVED) =>
                ClaimResolved(claims'[c]) = ClaimResolved(claims[c])
       /\ \A c \in ClaimIds :
             claims'[c].escrow > claims[c].escrow =>
                /\ claims[c].status = STATUS_OPEN
                /\ last'.op = "stake"
                /\ claims'[c].escrow - claims[c].escrow
                      = (claims'[c].yes_stake + claims'[c].no_stake)
                           - (claims[c].yes_stake + claims[c].no_stake)
       /\ last'.op = "stake" =>
             \A u \in Users, c \in ClaimIds, m \in MarketIds, a \in Amounts, y \in BOOLEAN :
                (claims[c].status = STATUS_RESOLVED /\ Stake(u, c, m, a, y, MaxPositions))
                => last'.err # "ok"
      ]_vars

\* C11 witness: a stake was refused although only Resolved claims with stake on
\* them exist
C11_Witness ==
    /\ last.op = "stake" /\ last.err # "ok"
    /\ claims # <<>>
    /\ \A c \in ClaimIds : claims[c].status = STATUS_RESOLVED /\ Staked(claims[c])

\* C12: a resolution that reaches resolve_claim while now < deadline fails with
\* DeadlineNotReached whatever the claim's status, and leaves status, result,
\* result_blob_id, resolver_measurement and resolved_at as they were.
C12_DeadlineFirst ==
    [][/\ \A c \in ClaimIds :
             now < claims[c].deadline => resolve_claim_err(claims[c]) = "EDeadlineNotReached"
       /\ last'.op = "submit_attested_resolution" =>
             \A s \in Users, c \in ClaimIds, r \in BOOLEAN, b \in Blobs,
                at \in AttestationInputs :
                (now < claims[c].deadline /\ ReachesResolve(at)
                    /\ SubmitAttestedResolution(s, c, r, b, at))
                => last'.err = "EDeadlineNotReached" /\ claims' = claims
      ]_vars

\* C12 witness: a resolution of a Cancelled claim was refused before the deadline
C12_Witness ==
    /\ last.op = "submit_attested_resolution" /\ last.err = "EDeadlineNotReached"
    /\ claims # <<>>
    /\ \A c \in ClaimIds : claims[c].status = STATUS_CANCELLED /\ now < claims[c].deadline

\* the fields written by resolve_claim
ResolutionFields(claim) ==
    <<claim.result, claim.result_blob_id, claim.resolver_measurement, claim.resolved_at>>

\* C13: in every state of every claim, result is set if and only if status is
\* Resolved, and likewise result_blob_id, resolver_measurement and resolved_at;
\* once set, none of them is changed by any later operation.
C13_ResultIffResolved ==
    [][/\ \A c \in 1..Len(claims') :
             /\ is_some(claims'[c].result) <=> claims'[c].status = STATUS_RESOLVED
             /\ is_some(claims'[c].result_blob_id) <=> claims'[c].status = STATUS_RESOLVED
             /\ is_some(claims'[c].resolver_measurement)
                    <=> claims'[c].status = STATUS_RESOLVED
             /\ is_some(claims'[c].resolved_at) <=> claims'[c].status = STATUS_RESOLVED
       /\ \A c \in ClaimIds :
             is_some(claims[c].result) =>
                ResolutionFields(claims'[c]) = ResolutionFields(claims[c])
      ]_vars

\* C13 witness: a payout was made from a Resolved claim that carries its result
\* while another claim without a result is not Resolved
C13_Witness ==
    /\ last.op = "claim_winnings" /\ last.err = "ok"
    /\ \E c \in ClaimIds : claims[c].status = STATUS_RESOLVED /\ is_some(claims[c].result)
    /\ \E c \in ClaimIds : claims[c].status # STATUS_RESOLVED /\ ~is_some(claims[c].result)

\* the measurement is missing from the registry or its entry is inactive
NotActive(measurement) ==
    \/ ~table_contains(mregistry.measurements, measurement)
    \/ ~mregistry.measurements[measurement].active

\* C14: submit_attested_resolution with an attestation whose measurement is
\* unknown to the registry or revoked fails with MeasurementNotWhitelisted and
\* leaves every claim unchanged, whatever the clock and the claim's status.
C14_FailsClosed ==
    [][last'.op = "submit_attested_resolution" =>
          \A s \in Users, c \in ClaimIds, r \in BOOLEAN, b \in Blobs,
             at \in AttestationInputs :
             (Len(at) >= MEASUREMENT_LEN /\ NotActive(measurement_of(at))
                 /\ SubmitAttestedResolution(s, c, r, b, at))
             => last'.err = "EMeasurementNotWhitelisted" /\ claims' = claims
      ]_vars

\* C14 witness: with every registered measurement revoked, a resolution of an
\* Open claim past its deadline was refused
C14_Witness ==
    /\ last.op = "submit_attested_resolution" /\ last.err = "EMeasurementNotWhitelisted"
    /\ \A m \in {M1, M2} :
          table_contains(mregistry.measurements, m) /\ ~mregistry.measurements[m].active
    /\ \E c \in ClaimIds : claims[c].status = STATUS_OPEN /\ now >= claims[c].deadline

\* C15: a claim becomes Resolved only in a successful
\* submit_attested_resolution step, the measurement recorded on it is registered
\* and active in the state in which that step is taken, and a later
\* revoke_measurement changes nothing on any claim.
C15_ResolvedByWhitelisted ==
    [][/\ \A c \in ClaimIds :
             (claims[c].status # STATUS_RESOLVED /\ claims'[c].status = STATUS_RESOLVED) =>
                /\ last'.op = "submit_attested_resolution" /\ last'.err = "ok"
                /\ is_some(claims'[c].resolver_measurement)
                /\ ~NotActive(borrow(claims'[c].resolver_measurement))
                /\ mregistry' = mregistry
       /\ \A c \in 1..Len(claims') :
             c \notin ClaimIds => claims'[c].status # STATUS_RESOLVED
       /\ last'.op = "revoke_measurement" => claims' = claims
      ]_vars

\* C15 witness: the measurement recorded on a Resolved claim has just been revoked
C15_Witness ==
    /\ last.op = "revoke_measurement" /\ last.err = "ok"
    /\ \E c \in ClaimIds :
          /\ claims[c].status = STATUS_RESOLVED
          /\ table_contains(mregistry.measurements, borrow(claims[c].resolver_measurement))
          /\ ~mregistry.measurements[borrow(claims[c].resolver_measurement)].active

\* C16 as stated: whitelist_measurement by the admin with a measurement that is
\* not exactly 32 bytes long fails with InvalidFingerprintLength (the abort
\* EInvalidMeasurement) and leaves the registry unchanged; with a 32-byte
\* measurement it succeeds and the measurement is active right after.
C16_Original ==
    [][last'.op = "whitelist_measurement" =>
          \A s \in Users, m \in MeasurementsAuthority, b \in Blobs :
             (s = mregistry.admin /\ WhitelistMeasurement(s, m, b)) =>
                IF Len(m) # MEASUREMENT_LEN
                THEN last'.err = "EInvalidMeasurement" /\ mregistry' = mregistry
                ELSE /\ last'.err = "ok"
                     /\ table_contains(mregistry'.measurements, m)
                     /\ mregistry'.measurements[m].active
      ]_vars

\* C17: whitelist_measurement and revoke_measurement called by anyone but the
\* registry's admin fail with Unauthorized and leave every entry unchanged; an
\* entry appears or changes only in a successful step of one of the two, taken
\* by the admin.
C17_AdminOnly ==
    [][/\ last'.op = "whitelist_measurement" =>
             \A s \in Users, m \in MeasurementsAuthority, b \in Blobs :
                WhitelistMeasurement(s, m, b) =>
                   /\ s # mregistry.admin =>
                         last'.err = "EUnauthorized" /\ mregistry' = mregistry
                   /\ mregistry'.measurements # mregistry.measurements =>
                         s = mregistry.admin
       /\ last'.op = "revoke_measurement" =>
             \A s \in Users, m \in MeasurementsAuthority :
                RevokeMeasurement(s, m) =>
                   /\ s # mregistry.admin =>
                         last'.err = "EUnauthorized" /\ mregistry' = mregistry
                   /\ mregistry'.measurements # mregistry.measurements =>
                         s = mregistry.admin
       /\ mregistry'.measurements # mregistry.measurements =>
             /\ last'.op \in {"whitelist_measurement", "revoke_measurement"}
             /\ last'.err = "ok"
      ]_vars

\* C17 witness: a revoke by a sender who is not the admin was refused while the
\* registry holds an active measurement, after the admin had been replaced
C17_Witness ==
    /\ last.op = "revoke_measurement" /\ last.err = "EUnauthorized"
    /\ mregistry.admin # Publisher
    /\ \E m \in {M1, M2} :
          table_contains(mregistry.measurements, m) /\ mregistry.measurements[m].active

\* C18 as stated: revoke_measurement by the admin leaves the measurement
\* inactive, also when it is inactive already; on an unknown measurement it
\* fails with NotFound (the abort of table::borrow_mut); and
\* whitelist_measurement by the admin of a revoked 32-byte measurement succeeds
\* and makes it active again.
C18_Original ==
    [][/\ last'.op = "revoke_measurement" =>
             \A s \in Users, m \in MeasurementsAuthority :
                (s = mregistry.admin /\ RevokeMeasurement(s, m)) =>
                   IF ~table_contains(mregistry.measurements, m)
                   THEN last'.err = "EFieldDoesNotExist" /\ mregistry' = mregistry
                   ELSE last'.err = "ok" /\ ~mregistry'.measurements[m].active
       /\ last'.op = "whitelist_measurement" =>
             \A s \in Users, m \in MeasurementsAuthority, b \in Blobs :
                (/\ s = mregistry.admin
                 /\ Len(m) = MEASUREMENT_LEN
                 /\ table_contains(mregistry.measurements, m)
                 /\ ~mregistry.measurements[m].active
                 /\ WhitelistMeasurement(s, m, b))
                => last'.err = "ok" /\ mregistry'.measurements[m].active
      ]_vars

\* C19 as stated: claim_refund on a claim that is not Cancelled fails with
\* InvalidStatus (the abort of its status check, market::EInvalidClaim) and moves
\* no funds; on a Cancelled claim, called by the owner of an unclaimed position
\* with yes_amount + no_amount > 0, it succeeds, debits the escrow by exactly
\* yes_amount + no_amount and sets claimed.
C19_Original ==
    [][last'.op = "claim_refund" =>
          \A s \in Users, c \in ClaimIds, p \in PositionIds :
             ClaimRefund(s, c, p) =>
                /\ claims[c].status # STATUS_CANCELLED =>
                      /\ last'.err = "EInvalidClaim"
                      /\ claims' = claims /\ positions' = positions
                /\ (/\ claims[c].status = STATUS_CANCELLED
                    /\ s = positions[p].user
                    /\ ~positions[p].claimed
                    /\ positions[p].yes_amount + positions[p].no_amount > 0)
                   => /\ last'.err = "ok"
                      /\ claims[c].escrow - claims'[c].escrow
                            = positions[p].yes_amount + positions[p].no_amount
                      /\ positions'[p].claimed
      ]_vars

\* C20: create_claim fails with InvalidDeadline if and only if deadline <= now,
\* and then creates no claim and leaves total_claims unchanged; a successful
\* create_claim adds one claim with status Open, no stake, an empty escrow and no
\* result; every claim has deadline > created_at and no step changes a deadline.
C20_Deadline ==
    [][/\ last'.op = "create_claim" =>
             \A s \in Creators, b \in Blobs, d \in DeadlinesAuthority, f \in CreatorFees :
                CreateClaim(s, b, d, f) =>
                   /\ last'.err = "EInvalidDeadline" <=> d <= now
                   /\ last'.err = "ok" <=> d > now
                   /\ last'.err # "ok" => claims' = claims /\ registry' = registry
                   /\ last'.err = "ok" =>
                         /\ Len(claims') = Len(claims) + 1
                         /\ registry'.total_claims = registry.total_claims + 1
                         /\ claims'[Len(claims')].status = STATUS_OPEN
                         /\ claims'[Len(claims')].yes_stake = 0
                         /\ claims'[Len(claims')].no_stake = 0
                         /\ claims'[Len(claims')].escrow = 0
                         /\ claims'[Len(claims')].result = None
                         /\ claims'[Len(claims')].deadline = d
       /\ last'.op # "create_claim" => Len(claims') = Len(claims)
       /\ \A c \in 1..Len(claims') : claims'[c].deadline > claims'[c].created_at
       /\ \A c \in ClaimIds :
             /\ claims'[c].deadline = claims[c].deadline
             /\ claims'[c].created_at = claims[c].created_at
      ]_vars

\* C20 witness: with the clock at 1 and a claim created earlier, a create_claim
\* was refused for its deadline
C20_Witness ==
    /\ last.op = "create_claim" /\ last.err = "EInvalidDeadline"
    /\ now > 0
    /\ \E c \in ClaimIds : claims[c].created_at < now

\* the sender holds a position for the claim
HasPosition(user, c) ==
    \E p \in PositionIds : positions[p].user = user /\ positions[p].claim_id = c

\* C21 as stated: a stake with amount > 0 on an Open claim by a sender who
\* already holds a position for that claim succeeds like a first stake: the
\* amount is credited to the escrow and to the chosen side's total and a new
\* position is recorded for the sender.
C21_Original ==
    [][last'.op = "stake" =>
          \A u \in Users, c \in ClaimIds, m \in MarketIds, a \in Amounts, y \in BOOLEAN :
             (/\ a > 0
              /\ claims[c].status = STATUS_OPEN
              /\ HasPosition(u, c)
              /\ Stake(u, c, m, a, y, MaxPositions))
             => /\ last'.err = "ok"
                /\ claims'[c].escrow = claims[c].escrow + a
                /\ claims'[c].yes_stake + claims'[c].no_stake
                      = claims[c].yes_stake + claims[c].no_stake + a
                /\ Len(positions') = Len(positions) + 1
      ]_vars

\* C22: a call that fails leaves every claim, position, market table and
\* registry as it was; in particular a stake that add_stake accepts and whose
\* position cannot be recorded, the sender being in the market's table already,
\* fails and leaves the escrow and the side totals uncredited.
C22_AllOrNothing ==
    [][/\ last'.err # "ok" =>
             UNCHANGED <<registry, claims, markets, positions, mregistry, withdrawn, fees_kept>>
       /\ last'.op = "stake" =>
             \A u \in Users, c \in ClaimIds, m \in MarketIds, a \in Amounts, y \in BOOLEAN :
                (/\ a > 0
                 /\ add_stake_err(claims[c]) = "ok"
                 /\ table_contains(markets[m].positions, u)
                 /\ Stake(u, c, m, a, y, MaxPositions))
                => /\ last'.err = "EFieldAlreadyExists"
                   /\ claims' = claims /\ positions' = positions /\ markets' = markets
      ]_vars

\* C22 witness: a stake on an Open claim failed when its position was recorded
C22_Witness ==
    /\ last.op = "stake" /\ last.err = "EFieldAlreadyExists"
    /\ \E c \in ClaimIds : claims[c].status = STATUS_OPEN /\ Staked(claims[c])

\* C23: while a claim is Open nothing has been withdrawn from it and its escrow
\* is yes_stake + no_stake; once something has been withdrawn the escrow never
\* grows; the escrow is never negative; and a withdraw_escrow of more than the
\* escrow holds fails (InsufficientEscrow, the abort of the balance) and leaves
\* the escrow unchanged.
C23_EscrowOnlyDecreases ==
    [][/\ \A c \in 1..Len(claims') :
             /\ claims'[c].escrow >= 0
             /\ claims'[c].status = STATUS_OPEN =>
                   /\ withdrawn'[c] = 0
                   /\ claims'[c].escrow = claims'[c].yes_stake + claims'[c].no_stake
       /\ \A c \in ClaimIds :
             /\ withdrawn[c] > 0 => claims'[c].escrow <= claims[c].escrow
             /\ withdrawn'[c] >= withdrawn[c]
       /\ \A c \in ClaimIds :
             \A amount \in 0..(2 * claims[c].escrow + 1) :
                amount > claims[c].escrow <=> withdraw_escrow_err(claims[c], amount) # "ok"
       /\ last'.err = "ENotEnough" =>
             /\ last'.op \in {"claim_winnings", "claim_refund"}
             /\ claims' = claims
      ]_vars

\* C23 witness: a payout larger than what the escrow holds was refused
C23_Witness ==
    /\ last.op = "claim_winnings" /\ last.err = "ENotEnough"
    /\ \E c \in ClaimIds : claims[c].status = STATUS_RESOLVED /\ withdrawn[c] > 0

\* C24: no claim ever has the status Resolving.
C24_NeverResolving ==
    \A c \in ClaimIds : claims[c].status # STATUS_RESOLVING

\* C24 witness: a claim has gone through its resolution
C24_Witness ==
    /\ last.op = "submit_attested_resolution" /\ last.err = "ok"
    /\ \E c \in ClaimIds : claims[c].status = STATUS_RESOLVED

\* every position of claim c with a stake on the winning side has claimed
AllWinnersClaimed(c) ==
    \A p \in PositionIds :
        (positions[p].claim_id = c /\ user_stake_of(claims[c], positions[p]) > 0)
        => positions[p].claimed

\* C25 as stated: a successful claim_winnings debits the claim's escrow by
\* exactly total_payout, sets the claimed flag of that position and changes no
\* other position, and leaves yes_stake, no_stake, status and result unchanged;
\* the fees stay in escrow, so once every winning position of a Resolved claim
\* has claimed, the escrow left is at least the sum of the fees computed.
C25_Original ==
    [][/\ (last'.op = "claim_winnings" /\ last'.err = "ok") =>
             \A c \in ClaimIds, p \in PositionIds :
                ClaimWinnings(positions[p].user, c, p) =>
                   /\ claims[c].escrow - claims'[c].escrow
                         = total_payout_of(claims[c], positions[p])
                   /\ claims' = [claims EXCEPT ![c].escrow = claims'[c].escrow]
                   /\ positions' = [positions EXCEPT ![p].claimed = TRUE]
                   /\ ~positions[p].claimed
       /\ \A c \in ClaimIds :
             (claims'[c].status = STATUS_RESOLVED /\ AllWinnersClaimed(c)')
             => claims'[c].escrow >= fees_kept'[c]
      ]_vars

\* C26 as stated: create_claim with creator_fee_bps > 1000 fails and creates no
\* claim, so every claim has creator_fee_bps <= 1000.
C26_Original ==
    [][/\ last'.op = "create_claim" =>
             \A s \in Creators, b \in Blobs, d \in Deadlines, f \in CreatorFees :
                (f > 1000 /\ CreateClaim(s, b, d, f))
                => last'.err # "ok" /\ claims' = claims
       /\ \A c \in 1..Len(claims') : claims'[c].creator_fee_bps <= 1000
      ]_vars

\* C27: update_protocol_fee and update_fee_recipient succeed exactly when the
\* sender is the address stored as protocol_fee_recipient, update_admin exactly
\* when the sender is the address stored as admin; otherwise they fail with
\* Unauthorized and leave the registry unchanged; on success they write the one
\* field; and once the stored address has been replaced by another one, the
\* calls of the previous holder are refused.
C27_SettersGuarded ==
    [][/\ last'.op = "update_protocol_fee" =>
             \A s \in Users, f \in ProtocolFees :
                UpdateProtocolFee(s, f) =>
                   /\ last'.err = "ok" <=> s = registry.protocol_fee_recipient
                   /\ last'.err # "ok" =>
                         last'.err = "EUnauthorized" /\ registry' = registry
                   /\ last'.err = "ok" =>
                         registry' = [registry EXCEPT !.default_protocol_fee_bps = f]
       /\ last'.op = "update_fee_recipient" =>
             \A s \in Users, r \in Users :
                UpdateFeeRecipient(s, r) =>
                   /\ last'.err = "ok" <=> s = registry.protocol_fee_recipient
                   /\ last'.err # "ok" =>
                         last'.err = "EUnauthorized" /\ registry' = registry
                   /\ last'.err = "ok" =>
                         registry' = [registry EXCEPT !.protocol_fee_recipient = r]
                   /\ (last'.err = "ok" /\ r # s) =>
                         /\ update_fee_recipient_err(s)' = "EUnauthorized"
                         /\ update_protocol_fee_err(s)' = "EUnauthorized"
       /\ last'.op = "update_admin" =>
             \A s \in Users, a \in Users :
                UpdateAdmin(s, a) =>
                   /\ last'.err = "ok" <=> s = mregistry.admin
                   /\ last'.err # "ok" =>
                         last'.err = "EUnauthorized" /\ mregistry' = mregistry
                   /\ last'.err = "ok" => mregistry' = [mregistry EXCEPT !.admin = a]
                   /\ (last'.err = "ok" /\ a # s) => update_admin_err(s)' = "EUnauthorized"
       /\ registry'.protocol_fee_recipient # registry.protocol_fee_recipient =>
             last'.op = "update_fee_recipient" /\ last'.err = "ok"
       /\ mregistry'.admin # mregistry.admin =>
             last'.op = "update_admin" /\ last'.err = "ok"
      ]_vars

\* C27 witness: after both registries were handed over, an update_protocol_fee
\* by a sender who is not the stored recipient was refused
C27_Witness ==
    /\ last.op = "update_protocol_fee" /\ last.err = "EUnauthorized"
    /\ registry.protocol_fee_recipient # Publisher
    /\ mregistry.admin # Publisher

\* C28: claim_winnings on a Resolved claim by the owner of an unclaimed position
\* whose amount on the winning side is zero fails with NoWinnings and leaves
\* the position's claimed flag false and the claim's escrow unchanged.
C28_NoWinnings ==
    [][last'.op = "claim_winnings" =>
          \A s \in Users, c \in ClaimIds, p \in PositionIds :
             (/\ claims[c].status = STATUS_RESOLVED
              /\ ~positions[p].claimed
              /\ s = positions[p].user
              /\ user_stake_of(claims[c], positions[p]) = 0
              /\ ClaimWinnings(s, c, p))
             => /\ last'.err = "ENoWinnings"
                /\ ~positions'[p].claimed
                /\ claims' = claims /\ positions' = positions
      ]_vars

\* C28 witness: a position on the losing side of its own claim was refused
C28_Witness ==
    /\ last.op = "claim_winnings" /\ last.err = "ENoWinnings"
    /\ \E p \in PositionIds :
          /\ claims[positions[p].claim_id].status = STATUS_RESOLVED
          /\ ~positions[p].claimed
          /\ user_stake_of(claims[positions[p].claim_id], positions[p]) = 0

\* id is the encoding of one timestamp that the clock has reached
Unlocked(id, timestamp_ms) ==
    \E t \in Timestamps : id = to_bytes(t) /\ timestamp_ms >= t

\* C29: seal_approve(id, clock) succeeds if and only if id is exactly the
\* encoding of one u64 timestamp t, with no byte missing and none trailing, and
\* the clock reads at least t; and, the clock never going back, an id that is
\* approved is approved at every later time.
C29_TimeLock ==
    [][/\ \A id \in KeyIds : seal_approve_err(id, now) = "ok" <=> Unlocked(id, now)
       /\ \A id \in KeyIds :
             seal_approve_err(id, now) = "ok" => seal_approve_err(id, now') = "ok"
       /\ now' >= now
       /\ last'.op = "seal_approve" =>
             \A id \in KeyIds : SealApprove(id) => (last'.err = "ok" <=> Unlocked(id, now))
      ]_vars

\* C29 witness: a key id was approved after the clock had passed a two-byte
\* timestamp
C29_Witness ==
    /\ last.op = "seal_approve" /\ last.err = "ok"
    /\ now > 256

\* C30 as stated: in every successful claim_winnings(claim, position) and
\* claim_refund(claim, position) the position's claim_id is the claim's ID.
C30_Original ==
    [][/\ (last'.op = "claim_winnings" /\ last'.err = "ok") =>
             \A s \in Users, c \in ClaimIds, p \in PositionIds :
                ClaimWinnings(s, c, p) => positions[p].claim_id = c
       /\ (last'.op = "claim_refund" /\ last'.err = "ok") =>
             \A s \in Users, c \in ClaimIds, p \in PositionIds :
                ClaimRefund(s, c, p) => positions[p].claim_id = c
      ]_vars

\* the sum of the yes_amount (no_amount) of the positions whose claim_id is c
yes_amount_sum(c) ==
    LET RECURSIVE sum(_)
        sum(n) == IF n = 0 THEN 0
                  ELSE sum(n - 1) + (IF positions[n].claim_id = c
                                     THEN positions[n].yes_amount ELSE 0)
    IN sum(Len(positions))
no_amount_sum(c) ==
    LET RECURSIVE sum(_)
        sum(n) == IF n = 0 THEN 0
                  ELSE sum(n - 1) + (IF positions[n].claim_id = c
                                     THEN positions[n].no_amount ELSE 0)
    IN sum(Len(positions))

\* C31: in every reachable state and for every claim, yes_stake equals the sum
\* of yes_amount over all positions whose claim_id is that claim, and no_stake
\* equals the sum of their no_amount.
C31_LedgersConsistent ==
    \A c \in ClaimIds :
        /\ claims[c].yes_stake = yes_amount_sum(c)
        /\ claims[c].no_stake = no_amount_sum(c)

\* C31 witness: a claim with two positions, one on each side, one of them
\* already paid out
C31_Witness ==
    \E c \in ClaimIds, p \in PositionIds, q \in PositionIds :
        /\ positions[p].claim_id = c /\ positions[q].claim_id = c
        /\ positions[p].yes_amount > 0 /\ positions[q].no_amount > 0
        /\ positions[p].claimed \/ positions[q].claimed
        /\ claims[c].yes_stake > 0 /\ claims[c].no_stake > 0

\* C32: every Cancelled claim has yes_stake = 0, no_stake = 0 and escrow = 0;
\* so no claim_refund call succeeds in any reachable state: on a Cancelled claim
\* a refund amount above zero exceeds the escrow and the withdrawal aborts.
C32_CancelledEmpty ==
    /\ \A c \in ClaimIds :
          claims[c].status = STATUS_CANCELLED =>
             claims[c].yes_stake = 0 /\ claims[c].no_stake = 0 /\ claims[c].escrow = 0
    /\ \A s \in Users, c \in ClaimIds, p \in PositionIds :
          /\ claim_refund_err(claims[c], positions[p], s) # "ok"
          /\ (/\ claims[c].status = STATUS_CANCELLED
              /\ ~positions[p].claimed
              /\ s = positions[p].user
              /\ refund_amount_of(positions[p]) > 0)
             => claim_refund_err(claims[c], positions[p], s) = "ENotEnough"
    /\ ~(last.op = "claim_refund" /\ last.err = "ok")

\* C32 witness: the owner of an unclaimed position with a stake asked for a
\* refund from a Cancelled claim and the withdrawal was refused
C32_Witness ==
    /\ last.op = "claim_refund" /\ last.err = "ENotEnough"
    /\ \E c \in ClaimIds, p \in PositionIds :
          /\ claims[c].status = STATUS_CANCELLED
          /\ ~positions[p].claimed
          /\ refund_amount_of(positions[p]) > 0

\* C33 as stated: stake does not consult the clock: on a claim that is still
\* Open a stake with amount > 0 is accepted at any time, also when
\* now >= deadline, and is counted in the totals the payouts are computed from.
C33_Original ==
    [][last'.op = "stake" =>
          \A u \in Users, c \in ClaimIds, m \in MarketIds, a \in Amounts, y \in BOOLEAN :
             (/\ claims[c].status = STATUS_OPEN
              /\ a > 0
              /\ Stake(u, c, m, a, y, MaxPositions))
             => /\ last'.err = "ok"
                /\ claims'[c].yes_stake + claims'[c].no_stake
                      = claims[c].yes_stake + claims[c].no_stake + a
      ]_vars

\* a Resolved claim nobody staked on the winning side of
NoWinner(claim) ==
    claim.status = STATUS_RESOLVED /\ winning_stake_of(claim) = 0

\* C34: once a claim is resolved with nothing staked on the winning side,
\* nothing is ever withdrawn from its escrow: in every later state the escrow
\* equals the losing side's total and no claim_winnings or claim_refund call on
\* the claim succeeds.
C34_NoWinnerLocksEscrow ==
    \A c \in ClaimIds :
        NoWinner(claims[c]) =>
           /\ claims[c].escrow = losing_stake_of(claims[c])
           /\ withdrawn[c] = 0
           /\ \A s \in Users, p \in PositionIds :
                 /\ claim_winnings_err(claims[c], positions[p], s) # "ok"
                 /\ claim_refund_err(claims[c], positions[p], s) # "ok"

\* C34 witness: on a claim resolved for the side nobody backed, with the losers'
\* coins in escrow, a claim_winnings for a position with a stake on the winning
\* side (a position of another claim) stopped in the division by the zero total
C34_Witness ==
    /\ last.op = "claim_winnings" /\ last.err = "ARITHMETIC_ERROR"
    /\ \E c \in ClaimIds : NoWinner(claims[c]) /\ claims[c].escrow > 0

\* a claim_winnings call on claim c for position p gets as far as the fees
ReachesFeeStep(s, c, p) ==
    /\ claims[c].status = STATUS_RESOLVED
    /\ ~positions[p].claimed
    /\ s = positions[p].user
    /\ user_stake_of(claims[c], positions[p]) > 0
    /\ winning_stake_of(claims[c]) > 0

\* C35 as stated: in every claim_winnings call that reaches the fee step,
\* fees <= winnings_from_losers, so net_winnings does not underflow and a
\* successful total_payout is >= user_stake; which is to say that
\* creator_fee_bps + protocol_fee_bps <= 10000 for every claim there is.
C35_Original ==
    /\ \A s \in Users, c \in ClaimIds, p \in PositionIds :
          ReachesFeeStep(s, c, p) =>
             /\ fees_of(claims[c], positions[p])
                   <= winnings_from_losers_of(claims[c], positions[p])
             /\ claim_winnings_err(claims[c], positions[p], s) = "ok" =>
                   total_payout_of(claims[c], positions[p])
                      >= user_stake_of(claims[c], positions[p])
    /\ \A c \in ClaimIds : total_fee_bps_of(claims[c]) <= BPS_DENOMINATOR

\* one of the products or sums of the payout computation exceeds u64
payout_overflows(claim, position) ==
    \/ add_aborts(claim.yes_stake, claim.no_stake)
    \/ add_aborts(claim.creator_fee_bps, claim.protocol_fee_bps)
    \/ mul_aborts(user_stake_of(claim, position), BPS_DENOMINATOR)
    \/ /\ ~mul_aborts(user_stake_of(claim, position), BPS_DENOMINATOR)
       /\ winning_stake_of(claim) > 0
       /\ \/ mul_aborts(losing_stake_of(claim), user_share_of(claim, position))
          \/ /\ ~mul_aborts(losing_stake_of(claim), user_share_of(claim, position))
             /\ mul_aborts(winnings_from_losers_of(claim, position),
                           total_fee_bps_of(claim))

\* C36 as stated: with unsigned 64-bit arithmetic that aborts on overflow, the
\* products of the payout computation and the additions of add_stake never
\* overflow for the amounts stake accepts, so no claim_winnings of a position
\* with a stake on the winning side of its claim stops in an overflow.
C36_Original ==
    /\ \A c \in ClaimIds, p \in PositionIds :
          (/\ claims[c].status = STATUS_RESOLVED
           /\ positions[p].claim_id = c
           /\ user_stake_of(claims[c], positions[p]) > 0)
          => ~payout_overflows(claims[c], positions[p])
    /\ \A c \in ClaimIds, a \in AmountsWide, y \in BOOLEAN :
          claims[c].status = STATUS_OPEN =>
             add_stake_arith_err(claims[c], a, y) = "ok"
    /\ ~(last.op \in {"stake", "claim_winnings"} /\ last.err = "ARITHMETIC_ERROR")

\* C37: a claim's protocol_fee_bps is the registry's default at the time of its
\* creation; update_protocol_fee changes default_protocol_fee_bps and nothing
\* else: no field of any claim created before; and no operation changes the
\* creator_fee_bps or the protocol_fee_bps of a claim after its creation.
C37_FeeSnapshot ==
    [][/\ last'.op = "update_protocol_fee" =>
             /\ claims' = claims
             /\ registry' = [registry EXCEPT !.default_protocol_fee_bps =
                                                registry'.default_protocol_fee_bps]
             /\ UNCHANGED <<markets, positions, mregistry>>
       /\ \A c \in ClaimIds :
             /\ claims'[c].protocol_fee_bps = claims[c].protocol_fee_bps
             /\ claims'[c].creator_fee_bps = claims[c].creator_fee_bps
       /\ Len(claims') > Len(claims) =>
             /\ last'.op = "create_claim"
             /\ claims'[Len(claims')].protocol_fee_bps = registry.default_protocol_fee_bps
      ]_vars

\* C37 witness: the default rate was changed after a claim had been created, and
\* the claim still carries the rate of its creation
C37_Witness ==
    /\ last.op = "update_protocol_fee" /\ last.err = "ok"
    /\ \E c \in ClaimIds :
          /\ claims[c].protocol_fee_bps # registry.default_protocol_fee_bps
          /\ claims[c].protocol_fee_bps = INIT_PROTOCOL_FEE_BPS

\* C38: a position holds the one stake it was created by: a successful stake of
\* amount a appends a position with yes_amount + no_amount = a and exactly one
\* of the two non-zero; no step changes the amounts, the owner or the claim_id
\* of a position afterwards; and the only change a position ever sees is its
\* claimed flag set by claim_winnings or claim_refund.
C38_PositionAmountsFixed ==
    [][/\ \A p \in PositionIds :
             /\ positions'[p].yes_amount = positions[p].yes_amount
             /\ positions'[p].no_amount = positions[p].no_amount
             /\ positions'[p] # positions[p] =>
                   /\ last'.op \in {"claim_winnings", "claim_refund"}
                   /\ last'.err = "ok"
                   /\ positions'[p] = [positions[p] EXCEPT !.claimed = TRUE]
       /\ \A p \in 1..Len(positions') :
             (positions'[p].yes_amount = 0) # (positions'[p].no_amount = 0)
       /\ Len(positions') # Len(positions) =>
             /\ last'.op = "stake" /\ last'.err = "ok"
             /\ Len(positions') = Len(positions) + 1
       /\ (last'.op = "stake" /\ last'.err = "ok") =>
             \A u \in Users, c \in ClaimIds, m \in MarketIds, a \in Amounts, y \in BOOLEAN :
                Stake(u, c, m, a, y, MaxPositions) =>
                   LET q == positions'[Len(positions')] IN
                   /\ Len(positions') = Len(positions) + 1
                   /\ q.yes_amount + q.no_amount = a
                   /\ (q.yes_amount = a) <=> y
      ]_vars

\* C38 witness: a position that has been paid out still carries its stake
C38_Witness ==
    /\ last.op = "claim_winnings" /\ last.err = "ok"
    /\ \E p \in PositionIds :
          /\ positions[p].claimed
          /\ positions[p].yes_amount + positions[p].no_amount > 0

\* the first 32 bytes of a proof
Fingerprint(proof) == SubSeq(proof, 1, MEASUREMENT_LEN)

\* C39: submit_attested_resolution with a proof shorter than 32 bytes fails with
\* InvalidProof (EInvalidAttestation) whatever the whitelist, the clock and the
\* claim are, and leaves the claim unchanged; with a longer proof the
\* measurement looked up in the whitelist and recorded on the claim is exactly
\* the first 32 bytes of the proof, and a proof that begins with an active
\* measurement passes from every sender: what is left are the checks of
\* resolve_claim.
C39_ProofLengthOnly ==
    [][last'.op = "submit_attested_resolution" =>
          \A s \in Users, c \in ClaimIds, r \in BOOLEAN, b \in Blobs,
             at \in AttestationInputs :
             SubmitAttestedResolution(s, c, r, b, at) =>
                /\ Len(at) < MEASUREMENT_LEN =>
                      last'.err = "EInvalidAttestation" /\ claims' = claims
                /\ Len(at) >= MEASUREMENT_LEN =>
                      /\ last'.err # "EInvalidAttestation"
                      /\ last'.err = "EMeasurementNotWhitelisted"
                            <=> ~is_measurement_whitelisted(Fingerprint(at))
                      /\ is_measurement_whitelisted(Fingerprint(at)) =>
                            last'.err = resolve_claim_err(claims[c])
                      /\ last'.err = "ok" =>
                            claims'[c].resolver_measurement = Some(Fingerprint(at))
      ]_vars

\* C39 witness: a proof of 33 bytes was accepted after the admin had changed,
\* and its first 32 bytes are recorded on the claim
C39_Witness ==
    /\ last.op = "submit_attested_resolution" /\ last.err = "ok"
    /\ mregistry.admin # Publisher
    /\ \E c \in ClaimIds :
          /\ claims[c].status = STATUS_RESOLVED
          /\ claims[c].resolver_measurement = Some(M1)
          /\ Some(M1 \o <<7>>) # claims[c].resolver_measurement

Spec == Init /\ [][Next]_vars
SpecDeep == Init /\ [][NextDeep]_vars
SpecAuthority == Init /\ [][NextAuthority]_vars
SpecAdmin == Init /\ [][NextAdmin]_vars
SpecPolicy == Init /\ [][NextPolicy]_vars
SpecFees == Init /\ [][NextFees]_vars
SpecOverflow == Init /\ [][NextOverflow]_vars
====
